---- MODULE Spec2Model ----
\* Package recognition and assembly (packagedcode): a resource tree, the
\* per-file parse step of the About, Cargo and Bower handlers, and their
\* assemble step, which mints Packages, emits Dependency records and appends
\* package uids to the for_packages list of resources. Also the search of the
\* handler of a file over the registry, the parse calls on their own, and the
\* scan runners of the test utilities.
EXTENDS Integers, Sequences, FiniteSets, TLC

VARIABLES
    tree,          \* node -> [parent, name, is_file, path]; fixed once the scan starts
    package_data,  \* node -> <<>> (None) or <<PackageData>> captured by parse
    scan_errors,   \* nodes whose parse step failed
    for_packages,  \* node -> sequence of package uids
    last,          \* the latest assemble call: handler, resource, yields, exception
    emitted,       \* every record the assemble calls have yielded so far
    assembled,     \* the resources whose assemble has been called
    ncalls,        \* how many assemble calls were made
    lookup,        \* the outcome of the get_package_handler call, if one was made
    registry,      \* dispatch: the ordered list of handlers in force
    location,      \* dispatch: the file a handler is being looked for
    position,      \* dispatch: the place in the registry the search has come to
    selected,      \* dispatch: whether the search is over, and the handler it took
    previous,      \* dispatch: what the dispatch before this one of the same file selected
    parse_call,    \* parse: the handler or mapper called and the document it is given
    parse_out,     \* parse: what the call handed back
    test_run       \* test runners: one call of run_scan_plain or run_scan_click

dispatch_vars == <<registry, location, position, selected, previous>>

parse_vars == <<parse_call, parse_out>>

runner_vars == <<test_run>>

vars == <<tree, package_data, scan_errors, for_packages, last, emitted, assembled,
          ncalls, lookup, registry, location, position, selected, previous,
          parse_call, parse_out, test_run>>

\* ---------------------------------------------------------------- bounds

MaxNodes == 4
MaxDeps == 1
MaxCalls == 2
MaxEntries == 2
MaxAuthors == 2
MaxOutput == 2

Null == "<None>"
NoResource == 0

\* ------------------------------------------------------- the resource tree

Nodes == 1 .. MaxNodes
Root == 1

\* Names a scanned path can have; the position fixes the order of siblings.
NameList == <<"src", "Cargo.toml", "Cargo.lock", "bower.json", "lib.ABOUT", "lib.c">>
DirNames == {"src"}

NameIndex(nm) == CHOOSE i \in 1 .. Len(NameList) : NameList[i] = nm

\* One tree per shape: a node's parent is an earlier directory, and siblings
\* carry distinct names in increasing position (a real directory listing).
Trees ==
    LET Parents == { p \in [2 .. MaxNodes -> Nodes] : \A n \in 2 .. MaxNodes : p[n] < n }
        Namings == [2 .. MaxNodes -> 1 .. Len(NameList)]
        Ok(p, k) ==
            /\ \A n \in 2 .. MaxNodes : p[n] = Root \/ NameList[k[p[n]]] \in DirNames
            /\ \A n, m \in 2 .. MaxNodes : (n < m /\ p[n] = p[m]) => k[n] < k[m]
    IN  { [n \in Nodes |->
              IF n = Root
              THEN [parent |-> NoResource, name |-> "proj", is_file |-> FALSE]
              ELSE [parent |-> p[n], name |-> NameList[k[n]],
                    is_file |-> NameList[k[n]] \notin DirNames]]
          : <<p, k>> \in { pk \in Parents \X Namings : Ok(pk[1], pk[2]) } }

\* Names a directory listing may hold twice when the codebase was not built
\* from a real file system.
CompanionNames == {"Cargo.toml", "Cargo.lock"}

\* The trees in which some directory lists one of the companion names twice:
\* siblings in non-decreasing position, equal only on a companion name.
AmbiguousTrees ==
    LET Parents == { p \in [2 .. MaxNodes -> Nodes] : \A n \in 2 .. MaxNodes : p[n] < n }
        Namings == [2 .. MaxNodes -> 1 .. Len(NameList)]
        Ok(p, k) ==
            /\ \A n \in 2 .. MaxNodes : p[n] = Root \/ NameList[k[p[n]]] \in DirNames
            /\ \A n, m \in 2 .. MaxNodes :
                    (n < m /\ p[n] = p[m]) =>
                        (k[n] < k[m] \/ (k[n] = k[m] /\ NameList[k[n]] \in CompanionNames))
            /\ \E n, m \in 2 .. MaxNodes : n < m /\ p[n] = p[m] /\ k[n] = k[m]
    IN  { [n \in Nodes |->
              IF n = Root
              THEN [parent |-> NoResource, name |-> "proj", is_file |-> FALSE]
              ELSE [parent |-> p[n], name |-> NameList[k[n]],
                    is_file |-> NameList[k[n]] \notin DirNames]]
          : <<p, k>> \in { pk \in Parents \X Namings : Ok(pk[1], pk[2]) } }

\* Resource.path: the names from the root down, joined by '/'.
RECURSIVE path_in(_, _)
path_in(t, n) ==
    IF t[n].parent = NoResource
    THEN t[n].name
    ELSE path_in(t, t[n].parent) \o "/" \o t[n].name

\* The resources of a scanned tree, each with its path attribute.
Resources(t) ==
    [n \in Nodes |-> [parent |-> t[n].parent, name |-> t[n].name,
                      is_file |-> t[n].is_file, path |-> path_in(t, n)]]

path(n) == tree[n].path

parent(n) == tree[n].parent

children(n) == { c \in Nodes : tree[c].parent = n }

RECURSIVE IsUnder(_, _)
IsUnder(n, d) ==
    /\ tree[n].parent # NoResource
    /\ (tree[n].parent = d \/ IsUnder(tree[n].parent, d))

\* Resource.walk: every descendant of the resource, the resource itself excluded.
walk(d) == { n \in Nodes : IsUnder(n, d) }

\* ------------------------------------------------------------ data model

\* PackageURL(type, name, version).to_string()
PackageURL(type, name, version) ==
    "pkg:" \o type \o "/" \o name \o (IF version = Null THEN "" ELSE "@" \o version)

DependentPackage(purl, extracted_requirement, scope, is_runtime, is_optional, is_resolved) ==
    [purl |-> purl, extracted_requirement |-> extracted_requirement, scope |-> scope,
     is_runtime |-> is_runtime, is_optional |-> is_optional, is_resolved |-> is_resolved]

PackageData(datasource_id, type, name, version, dependencies, about_resource) ==
    [datasource_id |-> datasource_id, type |-> type, name |-> name, version |-> version,
     dependencies |-> dependencies, about_resource |-> about_resource]

\* PackageData.purl: a package URL needs at least a name.
purl(pd) == IF pd.name = Null THEN Null ELSE PackageURL(pd.type, pd.name, pd.version)

\* The package_uid is the purl plus a qualifier that tells two packages with
\* one purl apart by the datafile that declared them.
make_package_uid(p, datafile_path) == p \o "?uuid=" \o datafile_path

\* Package.from_package_data(package_data, datafile_path)
from_package_data(pd, datafile_path) ==
    [kind |-> "package", type |-> pd.type, name |-> pd.name, version |-> pd.version,
     purl |-> purl(pd), package_uid |-> make_package_uid(purl(pd), datafile_path),
     datafile_path |-> datafile_path, datasource_id |-> pd.datasource_id]

\* PackageData.from_dict(resource.package_data): loads what parse captured;
\* nothing is loaded for a resource that was never parsed.
from_dict(mapping) == mapping

DependencyRecord(dp, datafile_path, datasource_id, package_uid) ==
    [kind |-> "dependency", purl |-> dp.purl,
     extracted_requirement |-> dp.extracted_requirement, scope |-> dp.scope,
     is_runtime |-> dp.is_runtime, is_optional |-> dp.is_optional,
     is_resolved |-> dp.is_resolved, datafile_path |-> datafile_path,
     datasource_id |-> datasource_id, package_uid |-> package_uid]

\* Dependency.from_dependent_packages: one Dependency per DependentPackage, in order.
from_dependent_packages(dependent_packages, datafile_path, datasource_id, package_uid) ==
    [i \in 1 .. Len(dependent_packages) |->
        DependencyRecord(dependent_packages[i], datafile_path, datasource_id, package_uid)]

ResourceRecord(n) == [kind |-> "resource", path |-> path(n)]

\* What a parse or an assemble call hands back.
Parsed(pd) == [raised |-> "none", data |-> <<pd>>]
ParseRaised(exc) == [raised |-> exc, data |-> <<>>]

RECURSIVE Flatten(_)
Flatten(seqs) == IF seqs = <<>> THEN <<>> ELSE Head(seqs) \o Flatten(Tail(seqs))

\* str.endswith(suffix), over the keys a manifest table can have here.
KeyPrefixes == {"", "dev-", "build-", "dependencies-", "x"}

EndsWith(s, suffix) == \E pre \in KeyPrefixes : s = pre \o suffix

\* ------------------------------------------------------------ parse: cargo

\* saneyaml.dump of what is left of a requirement table once 'optional' is popped
saneyaml_dump(requirement) == "version: '" \o requirement.text \o "'\n"

\* dependency_mapper: is_optional is a local of the whole loop, assigned only
\* in the str and dict branches.
RECURSIVE dependency_mapper_loop(_, _, _, _)
dependency_mapper_loop(entries, scope, is_runtime, is_optional) ==
    IF entries = <<>> THEN [raised |-> "none", deps |-> <<>>]
    ELSE
        LET e == Head(entries)
            req == e.requirement
            opt == IF req.kind = "str" THEN [bound |-> TRUE, value |-> FALSE]
                   ELSE IF req.kind = "dict"
                        THEN [bound |-> TRUE, value |-> (req.optional = "true")]
                        ELSE is_optional
            requirement == IF req.kind = "dict" THEN saneyaml_dump(req) ELSE req.text
        IN  IF ~opt.bound THEN [raised |-> "UnboundLocalError", deps |-> <<>>]
            ELSE
                LET rest == dependency_mapper_loop(Tail(entries), scope, is_runtime, opt)
                    dp == DependentPackage(PackageURL("cargo", e.name, Null), requirement,
                                           scope, is_runtime, opt.value, FALSE)
                IN  [raised |-> rest.raised, deps |-> <<dp>> \o rest.deps]

dependency_mapper(dependencies, scope) ==
    dependency_mapper_loop(
        dependencies, scope,
        ~(EndsWith(scope, "dev-dependencies") \/ EndsWith(scope, "build-dependencies")),
        [bound |-> FALSE, value |-> FALSE])

\* party_mapper iterates the authors it is given; None is not iterable.
\* authors is <<>> for None (no 'authors' key) or <<list>>.
party_mapper(authors) == IF authors = <<>> THEN "TypeError" ELSE "none"

\* The dependency tables CargoTomlHandler.parse reads: the keys of the
\* [package] table that end with 'dependencies'.
RECURSIVE cargo_toml_dependencies(_)
cargo_toml_dependencies(tables) ==
    IF tables = <<>> THEN [raised |-> "none", deps |-> <<>>]
    ELSE
        LET t == Head(tables)
            here == IF EndsWith(t.key, "dependencies")
                    THEN dependency_mapper(t.entries, t.key)
                    ELSE [raised |-> "none", deps |-> <<>>]
            rest == cargo_toml_dependencies(Tail(tables))
        IN  IF here.raised # "none" THEN here
            ELSE [raised |-> rest.raised, deps |-> here.deps \o rest.deps]

\* CargoTomlHandler.parse. A document is [malformed, has_package, name,
\* version, authors, package_tables, tables]: package_tables are the tables
\* nested in [package], tables the top-level ones such as [dependencies].
CargoTomlHandler_parse(doc) ==
    IF doc.malformed THEN ParseRaised("TomlDecodeError")
    ELSE
        LET core_package_data == doc.has_package
            name == IF core_package_data THEN doc.name ELSE Null
            version == IF core_package_data THEN doc.version ELSE Null
            authors == IF core_package_data THEN doc.authors ELSE <<>>
            deps == cargo_toml_dependencies(
                        IF core_package_data THEN doc.package_tables ELSE <<>>)
        IN  IF party_mapper(authors) # "none" THEN ParseRaised(party_mapper(authors))
            ELSE IF deps.raised # "none" THEN ParseRaised(deps.raised)
            ELSE Parsed(PackageData("cargo_toml", "cargo", name, version, deps.deps, Null))

\* CargoLockHandler.parse. A document is [malformed, package], package the
\* [[package]] entries, each [name, version].
CargoLockHandler_parse(doc) ==
    IF doc.malformed THEN ParseRaised("TomlDecodeError")
    ELSE Parsed(PackageData("cargo_lock", "cargo", Null, Null,
            [i \in 1 .. Len(doc.package) |->
                DependentPackage(
                    PackageURL("cargo", doc.package[i].name, doc.package[i].version),
                    doc.package[i].version, "dependencies", TRUE, FALSE, TRUE)],
            Null))

\* ------------------------------------------------------------ parse: bower

\* The authors loop of BowerJsonHandler.parse assigns the local `name` for
\* every author given as a table.
RECURSIVE bower_name_after_authors(_, _)
bower_name_after_authors(name, authors) ==
    IF authors = <<>> THEN name
    ELSE bower_name_after_authors(
            IF Head(authors).kind = "dict" THEN Head(authors).name ELSE name,
            Tail(authors))

\* Mutant: the 'devDependencies' table is mapped the way 'dependencies' is.
bower_dev_dependencies_as_runtime(deps) ==
    [i \in 1 .. Len(deps) |->
        DependentPackage(PackageURL("bower", deps[i].name, Null), deps[i].requirement,
                         "dependencies", TRUE, FALSE, FALSE)]

\* Mutant: the 'dependencies' table is mapped the way 'devDependencies' is.
bower_dependencies_as_dev(deps) ==
    [i \in 1 .. Len(deps) |->
        DependentPackage(PackageURL("bower", deps[i].name, Null), deps[i].requirement,
                         "devDependencies", FALSE, TRUE, FALSE)]

bower_dependencies(deps) ==
    [i \in 1 .. Len(deps) |->
        DependentPackage(PackageURL("bower", deps[i].name, Null), deps[i].requirement,
                         "dependencies", TRUE, FALSE, FALSE)]

bower_dev_dependencies(deps) ==
    [i \in 1 .. Len(deps) |->
        DependentPackage(PackageURL("bower", deps[i].name, Null), deps[i].requirement,
                         "devDependencies", FALSE, TRUE, FALSE)]

\* BowerJsonHandler.parse. A document is [malformed, name, version, authors,
\* dependencies, devDependencies].
BowerJsonHandler_parse(doc) ==
    IF doc.malformed THEN ParseRaised("JSONDecodeError")
    ELSE Parsed(PackageData("bower_json", "bower",
            bower_name_after_authors(doc.name, doc.authors), doc.version,
            bower_dependencies(doc.dependencies)
                \o bower_dev_dependencies(doc.devDependencies),
            Null))

\* ------------------------------------------------------------ parse: about

\* AboutFileHandler.parse. A document is [malformed, name, version, about_resource].
AboutFileHandler_parse(doc) ==
    IF doc.malformed THEN ParseRaised("YAMLError")
    ELSE Parsed(PackageData("about_file", "about", doc.name, doc.version, <<>>,
                            doc.about_resource))

\* --------------------------------------------------------------- assemble

\* What an assemble call did: the for_packages lists it leaves, what it
\* yielded in order, and the exception that ended it ("none": it returned).
Outcome(fp, yielded, raised) == [for_packages |-> fp, yielded |-> yielded, raised |-> raised]

\* resource.for_packages.append(package_uid); resource.save(codebase)
append_for_package(fp, n, package_uid) == [fp EXCEPT ![n] = Append(@, package_uid)]

\* Mutant: the walk assigns the list instead of appending to it.
append_for_subtree_assigning(fp, parent_dir, package_uid) ==
    [n \in Nodes |-> IF n \in walk(parent_dir) THEN <<package_uid>> ELSE fp[n]]

\* for res in parent_dir.walk(codebase): res.for_packages.append(package_uid)
append_for_subtree(fp, parent_dir, package_uid) ==
    [n \in Nodes |-> IF n \in walk(parent_dir) THEN Append(fp[n], package_uid) ELSE fp[n]]

\* Mutant: the companion is looked for in the whole codebase.
child_named_anywhere(parent_dir, name) ==
    IF \E c \in Nodes : tree[c].name = name
    THEN CHOOSE c \in Nodes :
            /\ tree[c].name = name
            /\ \A o \in Nodes : tree[o].name = name => o <= c
    ELSE NoResource

\* The child of parent_dir with the given name, as the lookup loops of the
\* cargo handlers leave it (NoResource when no child has the name).
child_named(parent_dir, name) ==
    IF \E c \in children(parent_dir) : tree[c].name = name
    THEN CHOOSE c \in children(parent_dir) :
            /\ tree[c].name = name
            /\ \A o \in children(parent_dir) : tree[o].name = name => o <= c
    ELSE NoResource

\* The ownership part of handle_cargo_toml_and_lock, run when a Package is minted.
cargo_assign(fp, parent_dir, cargo_resource, package_uid) ==
    append_for_subtree(append_for_package(fp, cargo_resource, package_uid),
                       parent_dir, package_uid)

\* The package_uid the Dependency records of one call carry.
cargo_package_uid(cargo_data, cargo_resource) ==
    IF purl(cargo_data) # Null
    THEN from_package_data(cargo_data, path(cargo_resource)).package_uid
    ELSE Null

\* Mutant: the dependencies are yielded only when a Package was minted.
cargo_toml_yields_rooted_only(cargo_data, cargo_resource) ==
    (IF purl(cargo_data) # Null
     THEN <<from_package_data(cargo_data, path(cargo_resource))>>
          \o from_dependent_packages(cargo_data.dependencies, path(cargo_resource),
                                     cargo_data.datasource_id,
                                     cargo_package_uid(cargo_data, cargo_resource))
     ELSE <<>>)
    \o <<ResourceRecord(cargo_resource)>>

\* Mutant: a Package is minted whether or not the manifest has a purl.
cargo_toml_yields_always_minting(cargo_data, cargo_resource) ==
    <<from_package_data(cargo_data, path(cargo_resource))>>
    \o from_dependent_packages(cargo_data.dependencies, path(cargo_resource),
                               cargo_data.datasource_id,
                               cargo_package_uid(cargo_data, cargo_resource))
    \o <<ResourceRecord(cargo_resource)>>

\* Mutant: the Package is minted without the path of its datafile.
cargo_toml_yields_without_path(cargo_data, cargo_resource) ==
    (IF purl(cargo_data) # Null
     THEN <<from_package_data(cargo_data, "")>> ELSE <<>>)
    \o from_dependent_packages(cargo_data.dependencies, path(cargo_resource),
                               cargo_data.datasource_id,
                               cargo_package_uid(cargo_data, cargo_resource))
    \o <<ResourceRecord(cargo_resource)>>

\* The Cargo.toml part of what handle_cargo_toml_and_lock yields.
cargo_toml_yields(cargo_data, cargo_resource) ==
    (IF purl(cargo_data) # Null
     THEN <<from_package_data(cargo_data, path(cargo_resource))>> ELSE <<>>)
    \o from_dependent_packages(cargo_data.dependencies, path(cargo_resource),
                               cargo_data.datasource_id,
                               cargo_package_uid(cargo_data, cargo_resource))
    \o <<ResourceRecord(cargo_resource)>>

\* Mutant: the lock's dependencies are recorded as declared by the manifest.
cargo_lock_yields_as_manifest(cargo_lock_data, cargo_lock_resource, package_uid) ==
    from_dependent_packages(cargo_lock_data.dependencies, path(cargo_lock_resource),
                            "cargo_toml", package_uid)
    \o <<ResourceRecord(cargo_lock_resource)>>

\* The Cargo.lock part of what handle_cargo_toml_and_lock yields.
cargo_lock_yields(cargo_lock_data, cargo_lock_resource, package_uid) ==
    from_dependent_packages(cargo_lock_data.dependencies, path(cargo_lock_resource),
                            cargo_lock_data.datasource_id, package_uid)
    \o <<ResourceRecord(cargo_lock_resource)>>

\* handle_cargo_toml_and_lock. The data arguments are <<>> for None or
\* <<PackageData>>; the resource arguments are a node or NoResource.
handle_cargo_toml_and_lock(fp, parent_dir, cargo_data, cargo_resource, cargo_lock_data, cargo_lock_resource) ==
    IF cargo_data = <<>>
    THEN Outcome(fp, <<>>, "AttributeError")
    ELSE
        LET cd == cargo_data[1]
            package_uid == cargo_package_uid(cd, cargo_resource)
            fp1 == IF purl(cd) # Null
                   THEN cargo_assign(fp, parent_dir, cargo_resource, package_uid)
                   ELSE fp
            y1 == cargo_toml_yields(cd, cargo_resource)
        IN  IF cargo_lock_resource = NoResource THEN Outcome(fp1, y1, "none")
            ELSE IF cargo_lock_data = <<>> THEN Outcome(fp1, y1, "AttributeError")
            ELSE Outcome(fp1,
                         y1 \o cargo_lock_yields(cargo_lock_data[1], cargo_lock_resource,
                                                 package_uid),
                         "none")

\* CargoTomlHandler.assemble
CargoTomlHandler_assemble(fp, pdata, resource) ==
    LET parent_dir == parent(resource)
        cargo_lock_resource == child_named(parent_dir, "Cargo.lock")
        cargo_lock_data == IF cargo_lock_resource # NoResource
                           THEN from_dict(package_data[cargo_lock_resource])
                           ELSE <<>>
    IN  handle_cargo_toml_and_lock(fp, parent_dir, <<pdata>>, resource,
                                   cargo_lock_data, cargo_lock_resource)

\* Mutant: the lock handler hands its own resource over as the manifest's.
CargoLockHandler_assemble_own_resource(fp, pdata, resource) ==
    LET parent_dir == parent(resource)
        cargo_resource == child_named(parent_dir, "Cargo.toml")
        cargo_data == IF cargo_resource # NoResource
                      THEN from_dict(package_data[cargo_resource])
                      ELSE <<>>
    IN  handle_cargo_toml_and_lock(fp, parent_dir, cargo_data, resource,
                                   <<pdata>>, resource)

\* CargoLockHandler.assemble
CargoLockHandler_assemble(fp, pdata, resource) ==
    LET parent_dir == parent(resource)
        cargo_resource == child_named(parent_dir, "Cargo.toml")
        cargo_data == IF cargo_resource # NoResource
                      THEN from_dict(package_data[cargo_resource])
                      ELSE <<>>
    IN  handle_cargo_toml_and_lock(fp, parent_dir, cargo_data, cargo_resource,
                                   <<pdata>>, resource)

\* Mutant: the ABOUT handler gives the package the whole parent subtree.
AboutFileHandler_assemble_parent_tree(fp, pdata, resource) ==
    IF purl(pdata) = Null
    THEN Outcome(fp, <<ResourceRecord(resource)>>, "none")
    ELSE LET package == from_package_data(pdata, path(resource))
         IN  Outcome(append_for_subtree(fp, parent(resource), package.package_uid),
                     <<package, ResourceRecord(resource)>>, "none")

\* Mutant: the ABOUT handler appends the package_uid it has, minted or not.
AboutFileHandler_assemble_always_appending(fp, pdata, resource) ==
    LET package == from_package_data(pdata, path(resource))
        package_uid == IF purl(pdata) # Null THEN package.package_uid ELSE Null
        fp1 == append_for_package(fp, resource, package_uid)
    IN  IF purl(pdata) = Null
        THEN Outcome(fp1, <<ResourceRecord(resource)>>, "none")
        ELSE Outcome(fp1, <<package, ResourceRecord(resource)>>, "none")

\* AboutFileHandler.assemble. The loop over the siblings appends to the one
\* named about_resource and then calls child.save() without the codebase.
AboutFileHandler_assemble(fp, pdata, resource) ==
    IF purl(pdata) = Null
    THEN Outcome(fp, <<ResourceRecord(resource)>>, "none")
    ELSE
        LET package == from_package_data(pdata, path(resource))
            fp1 == append_for_package(fp, resource, package.package_uid)
            child == IF pdata.about_resource = Null THEN NoResource
                     ELSE CHOOSE c \in children(parent(resource)) \cup {NoResource} :
                            \/ c # NoResource /\ tree[c].name = pdata.about_resource
                            \/ /\ c = NoResource
                               /\ \A o \in children(parent(resource)) :
                                     tree[o].name # pdata.about_resource
        IN  IF child = NoResource
            THEN Outcome(fp1, <<package, ResourceRecord(resource)>>, "none")
            ELSE Outcome(append_for_package(fp1, child, package.package_uid),
                         <<package>>, "TypeError")

\* add_to_package: append the uid unless the resource already has it.
add_to_package(fp, n, package_uid) ==
    IF \E i \in 1 .. Len(fp[n]) : fp[n][i] = package_uid
    THEN fp
    ELSE append_for_package(fp, n, package_uid)

\* DatafileHandler.assign_package_to_parent_tree: the parent directory of
\* the datafile and everything below it.
RECURSIVE add_all_to_package(_, _, _)
add_all_to_package(fp, S, package_uid) ==
    IF S = {} THEN fp
    ELSE LET n == CHOOSE x \in S : \A y \in S : x <= y
         IN  add_all_to_package(add_to_package(fp, n, package_uid), S \ {n}, package_uid)

assign_package_to_parent_tree(fp, resource, package_uid) ==
    add_all_to_package(fp, {parent(resource)} \cup walk(parent(resource)), package_uid)

\* BowerJsonHandler.assign_package_to_resources
BowerJsonHandler_assign_package_to_resources(fp, resource, package_uid) ==
    assign_package_to_parent_tree(fp, resource, package_uid)

\* DatafileHandler.assemble, as BowerJsonHandler inherits it.
BowerJsonHandler_assemble(fp, pdata, resource) ==
    LET minted == purl(pdata) # Null
        package == from_package_data(pdata, path(resource))
        package_uid == IF minted THEN package.package_uid ELSE Null
        fp1 == IF minted
               THEN BowerJsonHandler_assign_package_to_resources(fp, resource, package_uid)
               ELSE fp
    IN  Outcome(fp1,
                (IF minted THEN <<package>> ELSE <<>>)
                \o from_dependent_packages(pdata.dependencies, path(resource),
                                           pdata.datasource_id, package_uid)
                \o <<ResourceRecord(resource)>>,
                "none")

\* ------------------------------------------------- assemble: event order

\* The steps of one handle_cargo_toml_and_lock call in the order the code
\* takes them: appends to for_packages and yields.
AppendEvent(n, package_uid) == [event |-> "append", resource |-> n, package_uid |-> package_uid]

YieldEvent(r) == [event |-> "yield", record |-> r]

YieldEvents(records) == [i \in 1 .. Len(records) |-> YieldEvent(records[i])]

\* The resources of a set, in the order a top-down walk meets them.
RECURSIVE InWalkOrder(_)
InWalkOrder(S) ==
    IF S = {} THEN <<>>
    ELSE LET n == CHOOSE x \in S : \A y \in S : x <= y
         IN  <<n>> \o InWalkOrder(S \ {n})

walk_append_events(parent_dir, package_uid) ==
    LET order == InWalkOrder(walk(parent_dir))
    IN  [i \in 1 .. Len(order) |-> AppendEvent(order[i], package_uid)]

\* Mutant: the ownership appends are made once the manifest was re-yielded.
cargo_toml_events_appending_last(parent_dir, cargo_data, cargo_resource) ==
    LET package_uid == cargo_package_uid(cargo_data, cargo_resource)
    IN  YieldEvents(cargo_toml_yields(cargo_data, cargo_resource))
        \o (IF purl(cargo_data) # Null
            THEN <<AppendEvent(cargo_resource, package_uid)>>
                 \o walk_append_events(parent_dir, package_uid)
            ELSE <<>>)

\* The Cargo.toml part of the call: mint, append, yield the Package, append
\* down the walk, then the dependencies and the resource.
cargo_toml_events(parent_dir, cargo_data, cargo_resource) ==
    LET package_uid == cargo_package_uid(cargo_data, cargo_resource)
    IN  (IF purl(cargo_data) # Null
         THEN <<AppendEvent(cargo_resource, package_uid),
                YieldEvent(from_package_data(cargo_data, path(cargo_resource)))>>
              \o walk_append_events(parent_dir, package_uid)
         ELSE <<>>)
        \o YieldEvents(from_dependent_packages(cargo_data.dependencies, path(cargo_resource),
                                               cargo_data.datasource_id, package_uid))
        \o <<YieldEvent(ResourceRecord(cargo_resource))>>

\* The whole call, up to its return or the exception that ends it.
handle_cargo_toml_and_lock_events(parent_dir, cargo_data, cargo_resource, cargo_lock_data, cargo_lock_resource) ==
    IF cargo_data = <<>> THEN <<>>
    ELSE cargo_toml_events(parent_dir, cargo_data[1], cargo_resource)
         \o (IF cargo_lock_resource = NoResource \/ cargo_lock_data = <<>> THEN <<>>
             ELSE YieldEvents(cargo_lock_yields(cargo_lock_data[1], cargo_lock_resource,
                                                cargo_package_uid(cargo_data[1],
                                                                  cargo_resource))))

\* --------------------------------------------------------------- registry

\* PACKAGE_DATAFILE_HANDLERS, in registry order. A pattern '*/<name>' is kept
\* as [kind "name"], a pattern '*<extension>' as [kind "ext"].
NamePattern(name) == [kind |-> "name", value |-> name]
ExtPattern(ext) == [kind |-> "ext", value |-> ext]

PACKAGE_DATAFILE_HANDLERS == <<
    [datasource_id |-> "about_file",   path_patterns |-> {ExtPattern(".ABOUT")}],
    [datasource_id |-> "cargo_toml",   path_patterns |-> {NamePattern("Cargo.toml")}],
    [datasource_id |-> "cargo_lock",   path_patterns |-> {NamePattern("Cargo.lock")}],
    [datasource_id |-> "bower_json",
     path_patterns |-> {NamePattern("bower.json"), NamePattern(".bower.json")}],
    [datasource_id |-> "build_gradle", path_patterns |-> {NamePattern("build.gradle")}] >>

RegisteredIds ==
    { PACKAGE_DATAFILE_HANDLERS[i].datasource_id : i \in 1 .. Len(PACKAGE_DATAFILE_HANDLERS) }

\* HANDLER_BY_DATASOURCE_ID is built with a set comprehension: a set of the
\* datasource ids, not a mapping from id to handler.
HANDLER_BY_DATASOURCE_ID == [type |-> "set", items |-> RegisteredIds]

NoLookup == [datasource_id |-> Null, raised |-> "none", handler |-> Null]

\* get_package_handler: HANDLER_BY_DATASOURCE_ID.get(datasource_id), then
\* UnknownPackageDatasource when nothing was found. A set has no get.
get_package_handler(datasource_id) ==
    IF HANDLER_BY_DATASOURCE_ID.type # "dict"
    THEN [datasource_id |-> datasource_id, raised |-> "AttributeError", handler |-> Null]
    ELSE IF datasource_id \notin HANDLER_BY_DATASOURCE_ID.items
    THEN [datasource_id |-> datasource_id, raised |-> "UnknownPackageDatasource",
          handler |-> Null]
    ELSE [datasource_id |-> datasource_id, raised |-> "none", handler |-> datasource_id]

\* fnmatch of the path of a resource against a pattern: '*' takes any
\* prefix, so '*/<name>' needs a parent directory and the name itself, and
\* '*<extension>' a name that ends with the extension.
Stems == {"lib", ""}

fnmatch(n, pattern) ==
    IF pattern.kind = "name"
    THEN tree[n].parent # NoResource /\ tree[n].name = pattern.value
    ELSE \E stem \in Stems : tree[n].name = stem \o pattern.value

\* The handler that recognizes a file: the first in registry order with a
\* matching path pattern (0 when none matches).
handler_for(n) ==
    LET Matching == { i \in 1 .. Len(PACKAGE_DATAFILE_HANDLERS) :
                        \E pattern \in PACKAGE_DATAFILE_HANDLERS[i].path_patterns :
                            fnmatch(n, pattern) }
    IN  IF ~tree[n].is_file \/ Matching = {} THEN 0
        ELSE CHOOSE i \in Matching : \A j \in Matching : i <= j

recognized(n) == handler_for(n) # 0

datasource_of(n) == PACKAGE_DATAFILE_HANDLERS[handler_for(n)].datasource_id

\* --------------------------------------------------------------- dispatch

\* The recognizers of misc.py that tell a file by its sniffed content: each
\* keeps the text its is_datafile looks for in the lowercased file type.
JavaWarRecognizer ==
    [handler |-> "JavaWarRecognizer", path_patterns |-> {ExtPattern(".war")},
     filetype_needles |-> {<<"zip", "archive">>}]

InstallShieldPackageRecognizer ==
    [handler |-> "InstallShieldPackageRecognizer", path_patterns |-> {ExtPattern(".exe")},
     filetype_needles |-> {<<"installshield">>}]

NSISInstallerRecognizer ==
    [handler |-> "NSISInstallerRecognizer", path_patterns |-> {ExtPattern(".exe")},
     filetype_needles |-> {<<"nullsoft", "installer">>}]

\* A handler of PACKAGE_DATAFILE_HANDLERS: it has no is_datafile of its own.
Registered(i) ==
    [handler |-> PACKAGE_DATAFILE_HANDLERS[i].datasource_id,
     path_patterns |-> PACKAGE_DATAFILE_HANDLERS[i].path_patterns,
     filetype_needles |-> {}]

\* The registries dispatch runs over: the list as it stands, and the list
\* with the recognizers added at the places the list keeps for them.
Registries ==
    { [i \in 1 .. Len(PACKAGE_DATAFILE_HANDLERS) |-> Registered(i)],
      <<JavaWarRecognizer, Registered(1), Registered(2), Registered(3), Registered(4),
        InstallShieldPackageRecognizer, NSISInstallerRecognizer, Registered(5)>> }

\* T.filetype_file of the files scanned, word by word.
FileTypes == {
    <<"Zip", "archive", "data">>,
    <<"PE32", "executable", "InstallShield", "archive">>,
    <<"PE32", "executable", "Nullsoft", "Installer", "archive">>,
    <<"PE32", "executable">>,
    <<"ASCII", "text">> }

\* The files dispatch is run on: name, whether a directory comes before the
\* name in the path, the sniffed file type, and the handler that claimed it.
Locations ==
    { [stem |-> nm[1], ext |-> nm[2], nested |-> nested, filetype |-> ft, claimed_by |-> Null]
      : nm \in {<<"Cargo", ".toml">>, <<"Cargo", ".lock">>, <<"bower", ".json">>,
                <<"lib", ".ABOUT">>, <<"lib", ".c">>, <<"app", ".war">>,
                <<"setup", ".exe">>},
        nested \in BOOLEAN,
        ft \in FileTypes }

\* fnmatchcase(location, pattern) for the two shapes of pattern in use.
fnmatchcase(loc, pattern) ==
    IF pattern.kind = "name"
    THEN loc.nested /\ loc.stem \o loc.ext = pattern.value
    ELSE loc.ext = pattern.value

\* DatafileHandler.is_datafile: some path pattern of the handler matches.
DatafileHandler_is_datafile(handler, loc) ==
    \E pattern \in handler.path_patterns : fnmatchcase(loc, pattern)

\* str.lower, word by word.
lower_word(w) ==
    CASE w = "Zip" -> "zip"
      [] w = "InstallShield" -> "installshield"
      [] w = "Nullsoft" -> "nullsoft"
      [] w = "Installer" -> "installer"
      [] w = "PE32" -> "pe32"
      [] w = "ASCII" -> "ascii"
      [] OTHER -> w

lower(words) == [i \in 1 .. Len(words) |-> lower_word(words[i])]

\* needle in text, for texts kept as words.
Within(needle, words) ==
    \E k \in 0 .. Len(words) - Len(needle) :
        \A i \in 1 .. Len(needle) : words[k + i] = needle[i]

\* Mutant: a content recognizer looks at the content only.
is_datafile_by_content_only(handler, loc) ==
    IF handler.filetype_needles = {}
    THEN DatafileHandler_is_datafile(handler, loc)
    ELSE \E needle \in handler.filetype_needles : Within(needle, lower(loc.filetype))

\* Mutant: a content recognizer looks at the path only.
is_datafile_by_path_only(handler, loc) == DatafileHandler_is_datafile(handler, loc)

\* Mutant: a file a handler has claimed before is turned down by every handler.
is_datafile_unless_claimed(handler, loc) ==
    /\ loc.claimed_by = Null
    /\ IF handler.filetype_needles = {}
       THEN DatafileHandler_is_datafile(handler, loc)
       ELSE /\ DatafileHandler_is_datafile(handler, loc)
            /\ \E needle \in handler.filetype_needles : Within(needle, lower(loc.filetype))

\* is_datafile of a handler: the inherited path test, and for the content
\* recognizers, when that test passes, the needle in the lowercased file type.
is_datafile(handler, loc) ==
    IF handler.filetype_needles = {}
    THEN DatafileHandler_is_datafile(handler, loc)
    ELSE /\ DatafileHandler_is_datafile(handler, loc)
         /\ \E needle \in handler.filetype_needles : Within(needle, lower(loc.filetype))

NoLocation == [stem |-> "", ext |-> "", nested |-> FALSE, filetype |-> <<>>, claimed_by |-> Null]

Searching == [done |-> FALSE, handler |-> 0]

\* The file was not dispatched before.
NoPrevious == [done |-> FALSE, handler |-> 0]

\* No dispatch is under way.
NoDispatch ==
    /\ registry = <<>>
    /\ location = NoLocation
    /\ position = 0
    /\ selected = Searching
    /\ previous = NoPrevious

\* ------------------------------------------------------ scanned documents

\* The tables of at most k entries a manifest can hold over the entries S:
\* the entries with distinct names, in the order of Rank, from the first on.
Rank(name) ==
    IF name \in {"serde", "jquery", "qunit"} THEN 1 ELSE 2

DistinctSeqs(S, k) ==
    { q \in UNION { [1 .. m -> S] : m \in 0 .. k } :
        \A i \in 1 .. Len(q) : Rank(q[i].name) = i }

CargoTomlEntries == {
    [name |-> "serde", requirement |-> [kind |-> "str", text |-> "1.0", optional |-> "absent"]],
    [name |-> "rand", requirement |-> [kind |-> "dict", text |-> "0.8", optional |-> "true"]] }

Tables(key, entries) == IF entries = <<>> THEN <<>> ELSE <<[key |-> key, entries |-> entries]>>

MalformedDoc == [malformed |-> TRUE]

CargoTomlDocs ==
    {MalformedDoc} \cup
    { [malformed |-> FALSE, has_package |-> TRUE, name |-> id[1], version |-> id[2],
       authors |-> au,
       package_tables |-> IF where = "package" THEN Tables("dependencies", es) ELSE <<>>,
       tables |-> IF where = "top" THEN Tables("dependencies", es) ELSE <<>>]
      : id \in {<<Null, Null>>, <<"foo", "0.1.0">>},
        au \in {<<>>, << <<"Ann <ann@example.org>">> >>},
        es \in DistinctSeqs(CargoTomlEntries, MaxDeps),
        where \in {"package", "top"} }

CargoLockDocs ==
    {MalformedDoc} \cup
    { [malformed |-> FALSE, package |-> ps]
      : ps \in DistinctSeqs({[name |-> "serde", version |-> "1.0.190"],
                             [name |-> "rand", version |-> "0.8.5"]}, MaxDeps) }

BowerJsonDocs ==
    {MalformedDoc} \cup
    { d \in { [malformed |-> FALSE, name |-> id[1], version |-> id[2], authors |-> au,
               dependencies |-> ds, devDependencies |-> dev]
              : id \in {<<Null, Null>>, <<"app", "1.0.0">>},
                au \in {<<>>, <<[kind |-> "str", name |-> "Bob"]>>,
                        <<[kind |-> "dict", name |-> "Ann"]>>},
                ds \in DistinctSeqs({[name |-> "jquery", requirement |-> "^3.0.0"]}, MaxDeps),
                dev \in DistinctSeqs({[name |-> "qunit", requirement |-> "~2.0"]}, MaxDeps) } :
        d.devDependencies # <<>> => (d.name = Null /\ d.authors = <<>>) }

AboutFileDocs ==
    {MalformedDoc} \cup
    { d \in { [malformed |-> FALSE, name |-> id[1], version |-> id[2], about_resource |-> ar]
              : id \in {<<Null, Null>>, <<"lib", "2.1">>},
                ar \in {Null, "lib.c", "lib.ABOUT"} } :
        d.name = Null => d.about_resource = "lib.c" }

\* The outcomes parse can have on a file each handler recognizes.
CargoTomlOutcomes == { CargoTomlHandler_parse(d) : d \in CargoTomlDocs }
CargoLockOutcomes == { CargoLockHandler_parse(d) : d \in CargoLockDocs }
BowerJsonOutcomes == { BowerJsonHandler_parse(d) : d \in BowerJsonDocs }
AboutFileOutcomes == { AboutFileHandler_parse(d) : d \in AboutFileDocs }

ParseOutcomes(datasource_id) ==
    IF datasource_id = "cargo_toml" THEN CargoTomlOutcomes
    ELSE IF datasource_id = "cargo_lock" THEN CargoLockOutcomes
    ELSE IF datasource_id = "bower_json" THEN BowerJsonOutcomes
    ELSE IF datasource_id = "about_file" THEN AboutFileOutcomes
    ELSE {}

\* Datasource ids captured data can carry that no registered handler has.
UnregisteredIds == {"npm_package_json"}

\* No parse call is under way.
NotParsed == [raised |-> Null, data |-> <<>>]

NoManifest ==
    /\ parse_call = [handler |-> Null]
    /\ parse_out = NotParsed

\* No test runner is under way.
NoTestRun == test_run = [runner |-> Null]

\* ---------------------------------------------------------------- actions

\* The datasource ids of the package data the parse sweep captured.
CapturedIds == { package_data[n][1].datasource_id : n \in { m \in Nodes : package_data[m] # <<>> } }

attempted(n) == package_data[n] # <<>> \/ n \in scan_errors

aborted == lookup.raised # "none"

NoCall == [handler |-> Null, resource |-> NoResource, yielded |-> <<>>, raised |-> "none"]

Range(q) == { q[i] : i \in 1 .. Len(q) }

Init ==
    /\ tree \in { Resources(t) : t \in Trees }
    /\ package_data = [n \in Nodes |-> <<>>]
    /\ scan_errors = {}
    /\ for_packages = [n \in Nodes |-> <<>>]
    /\ last = NoCall
    /\ emitted = {}
    /\ assembled = {}
    /\ ncalls = 0
    /\ lookup = NoLookup
    /\ NoDispatch
    /\ NoManifest
    /\ NoTestRun

\* The parse sweep: files are visited in node order; a parse that raises
\* leaves a scan error on the resource and no package data.
Parse(n) ==
    /\ ~aborted
    /\ ncalls = 0
    /\ ~attempted(n)
    /\ recognized(n)
    /\ \A m \in Nodes : (m < n /\ recognized(m)) => attempted(m)
    /\ \E r \in ParseOutcomes(datasource_of(n)) :
        IF r.raised = "none"
        THEN /\ package_data' = [package_data EXCEPT ![n] = r.data]
             /\ UNCHANGED scan_errors
        ELSE /\ scan_errors' = scan_errors \cup {n}
             /\ UNCHANGED package_data
    /\ UNCHANGED <<tree, for_packages, last, emitted, assembled, ncalls, lookup>>
    /\ UNCHANGED <<dispatch_vars, parse_vars, runner_vars>>

CanAssemble(n, datasource_id) ==
    /\ ~aborted
    /\ ncalls < MaxCalls
    /\ package_data[n] # <<>>
    /\ package_data[n][1].datasource_id = datasource_id
    /\ \A m \in Nodes : recognized(m) => attempted(m)

Record(datasource_id, n, out) ==
    /\ for_packages' = out.for_packages
    /\ last' = [handler |-> datasource_id, resource |-> n,
                yielded |-> out.yielded, raised |-> out.raised]
    /\ emitted' = emitted \cup Range(out.yielded)
    /\ assembled' = assembled \cup {n}
    /\ ncalls' = ncalls + 1
    /\ UNCHANGED <<tree, package_data, scan_errors, lookup>>
    /\ UNCHANGED <<dispatch_vars, parse_vars, runner_vars>>

AssembleCargoToml(n) ==
    /\ CanAssemble(n, "cargo_toml")
    /\ Record("cargo_toml", n, CargoTomlHandler_assemble(for_packages, package_data[n][1], n))

AssembleCargoLock(n) ==
    /\ CanAssemble(n, "cargo_lock")
    /\ Record("cargo_lock", n, CargoLockHandler_assemble(for_packages, package_data[n][1], n))

AssembleAbout(n) ==
    /\ CanAssemble(n, "about_file")
    /\ Record("about_file", n, AboutFileHandler_assemble(for_packages, package_data[n][1], n))

AssembleBower(n) ==
    /\ CanAssemble(n, "bower_json")
    /\ Record("bower_json", n, BowerJsonHandler_assemble(for_packages, package_data[n][1], n))

\* Resolving the handler of captured package data, before the assemble sweep.
GetPackageHandler(datasource_id) ==
    /\ ~aborted
    /\ lookup = NoLookup
    /\ ncalls = 0
    /\ \A m \in Nodes : recognized(m) => attempted(m)
    /\ lookup' = get_package_handler(datasource_id)
    /\ UNCHANGED <<tree, package_data, scan_errors, for_packages, last, emitted,
                   assembled, ncalls>>
    /\ UNCHANGED <<dispatch_vars, parse_vars, runner_vars>>

Next ==
    \/ \E n \in Nodes : Parse(n)
    \/ \E n \in Nodes : AssembleCargoToml(n)
    \/ \E n \in Nodes : AssembleCargoLock(n)
    \/ \E n \in Nodes : AssembleAbout(n)
    \/ \E n \in Nodes : AssembleBower(n)
    \/ \E ds \in CapturedIds \cup UnregisteredIds : GetPackageHandler(ds)

Spec == Init /\ [][Next]_vars

\* The scan of a codebase in which a directory lists a companion name twice.
InitAmbiguous ==
    /\ tree \in { Resources(t) : t \in AmbiguousTrees }
    /\ package_data = [n \in Nodes |-> <<>>]
    /\ scan_errors = {}
    /\ for_packages = [n \in Nodes |-> <<>>]
    /\ last = NoCall
    /\ emitted = {}
    /\ assembled = {}
    /\ ncalls = 0
    /\ lookup = NoLookup
    /\ NoDispatch
    /\ NoManifest
    /\ NoTestRun

SpecAmbiguous == InitAmbiguous /\ [][Next]_vars

\* ------------------------------------------------------- dispatch actions

scan_vars == <<tree, package_data, scan_errors, for_packages, last, emitted, assembled,
               ncalls, lookup>>

\* Dispatch of one file over one registry, from the first handler on.
InitDispatch ==
    /\ registry \in Registries
    /\ location \in Locations
    /\ position = 1
    /\ selected = Searching
    /\ previous = NoPrevious
    /\ NoManifest
    /\ NoTestRun
    /\ tree = Resources(CHOOSE t \in Trees : TRUE)
    /\ package_data = [n \in Nodes |-> <<>>]
    /\ scan_errors = {}
    /\ for_packages = [n \in Nodes |-> <<>>]
    /\ last = NoCall
    /\ emitted = {}
    /\ assembled = {}
    /\ ncalls = 0
    /\ lookup = NoLookup

\* The handler at hand does not take the file: on to the next.
TryHandler ==
    /\ ~selected.done
    /\ position <= Len(registry)
    /\ ~is_datafile(registry[position], location)
    /\ position' = position + 1
    /\ UNCHANGED <<registry, location, selected, previous>>
    /\ UNCHANGED <<scan_vars, parse_vars, runner_vars>>

\* The handler at hand takes the file: the search stops and the file is its.
SelectHandler ==
    /\ ~selected.done
    /\ position <= Len(registry)
    /\ is_datafile(registry[position], location)
    /\ selected' = [done |-> TRUE, handler |-> position]
    /\ location' = [location EXCEPT !.claimed_by = registry[position].handler]
    /\ UNCHANGED <<registry, position, previous>>
    /\ UNCHANGED <<scan_vars, parse_vars, runner_vars>>

\* No handler took the file: it is not a manifest.
PassThrough ==
    /\ ~selected.done
    /\ position > Len(registry)
    /\ selected' = [done |-> TRUE, handler |-> 0]
    /\ UNCHANGED <<registry, location, position, previous>>
    /\ UNCHANGED <<scan_vars, parse_vars, runner_vars>>

\* The file is dispatched once more over the same registry: the search
\* starts over from the first handler, on the file as the first search left it.
DispatchAgain ==
    /\ selected.done
    /\ ~previous.done
    /\ previous' = selected
    /\ selected' = Searching
    /\ position' = 1
    /\ UNCHANGED <<registry, location>>
    /\ UNCHANGED <<scan_vars, parse_vars, runner_vars>>

NextDispatch ==
    \/ TryHandler
    \/ SelectHandler
    \/ PassThrough
    \/ DispatchAgain

SpecDispatch == InitDispatch /\ [][NextDispatch]_vars

\* ------------------------------------------------ parse calls on their own

\* The tables of at most k entries over S, in any order, no key twice.
NamedSeqs(S, k) ==
    { q \in UNION { [1 .. m -> S] : m \in 0 .. k } :
        \A i, j \in 1 .. Len(q) : i # j => q[i].name # q[j].name }

\* What a TOML dependency table can give a crate: a version string, a table
\* with or without 'optional', or a value that is neither, such as an integer.
CargoRequirements == {
    [kind |-> "str", text |-> "1.0", optional |-> "absent"],
    [kind |-> "dict", text |-> "0.8", optional |-> "true"],
    [kind |-> "dict", text |-> "0.8", optional |-> "absent"],
    [kind |-> "int", text |-> "1", optional |-> "absent"] }

CargoTables ==
    NamedSeqs({ [name |-> n, requirement |-> r]
                : n \in {"serde", "rand", "libc"}, r \in CargoRequirements }, MaxEntries)

CargoScopes == {"dependencies", "dev-dependencies", "build-dependencies", "xdev-dependencies"}

\* The authors a bower.json can list: a string, a table with a name, a table
\* without one.
BowerAuthors ==
    UNION { [1 .. m -> {[kind |-> "str", name |-> "Bob"],
                        [kind |-> "dict", name |-> "Ann"],
                        [kind |-> "dict", name |-> Null]}] : m \in 0 .. MaxAuthors }

BowerTables ==
    NamedSeqs({ [name |-> n, requirement |-> "^3.0.0"] : n \in {"jquery", "qunit", "lodash"} },
              MaxEntries)

BowerManifests ==
    {MalformedDoc} \cup
    { [malformed |-> FALSE, name |-> id[1], version |-> id[2], authors |-> au,
       dependencies |-> ds, devDependencies |-> dev]
      : id \in {<<Null, Null>>, <<"app", "1.0.0">>},
        au \in BowerAuthors, ds \in BowerTables, dev \in BowerTables }

ParseCalls ==
    { [handler |-> "dependency_mapper", dependencies |-> es, scope |-> sc]
      : es \in CargoTables, sc \in CargoScopes }
    \cup { [handler |-> "bower_json", doc |-> d] : d \in BowerManifests }

InitParse ==
    /\ parse_call \in ParseCalls
    /\ parse_out = NotParsed
    /\ NoDispatch
    /\ NoTestRun
    /\ tree = Resources(CHOOSE t \in Trees : TRUE)
    /\ package_data = [n \in Nodes |-> <<>>]
    /\ scan_errors = {}
    /\ for_packages = [n \in Nodes |-> <<>>]
    /\ last = NoCall
    /\ emitted = {}
    /\ assembled = {}
    /\ ncalls = 0
    /\ lookup = NoLookup

\* list(dependency_mapper(dependencies, scope))
MapDependencies ==
    /\ parse_call.handler = "dependency_mapper"
    /\ parse_out = NotParsed
    /\ parse_out' = dependency_mapper(parse_call.dependencies, parse_call.scope)
    /\ UNCHANGED <<parse_call, test_run>>
    /\ UNCHANGED <<scan_vars, dispatch_vars>>

\* list(BowerJsonHandler.parse(location))
ParseBowerJson ==
    /\ parse_call.handler = "bower_json"
    /\ parse_out = NotParsed
    /\ parse_out' = BowerJsonHandler_parse(parse_call.doc)
    /\ UNCHANGED <<parse_call, test_run>>
    /\ UNCHANGED <<scan_vars, dispatch_vars>>

NextParse ==
    \/ MapDependencies
    \/ ParseBowerJson

SpecParse == InitParse /\ [][NextParse]_vars

\* ------------------------------------------------------- claims: helpers

IsPrefix(a, b) == Len(a) <= Len(b) /\ \A i \in 1 .. Len(a) : a[i] = b[i]

NoDuplicates(q) == \A i, j \in 1 .. Len(q) : i # j => q[i] # q[j]

Contains(q, x) == \E i \in 1 .. Len(q) : q[i] = x

Count(q, kind) == Cardinality({ i \in 1 .. Len(q) : q[i].kind = kind })

parsed(n) == package_data[n] # <<>>

\* A Cargo.toml and a Cargo.lock that share their directory.
CargoPairs ==
    { tl \in Nodes \X Nodes :
        /\ tree[tl[1]].name = "Cargo.toml" /\ tree[tl[1]].is_file
        /\ tree[tl[2]].name = "Cargo.lock" /\ tree[tl[2]].is_file
        /\ tree[tl[1]].parent = tree[tl[2]].parent }

\* The Dependency records emitted so far for the datafiles at these nodes.
DependenciesOf(S) ==
    { r \in emitted : r.kind = "dependency" /\ \E n \in S : r.datafile_path = path(n) }

\* The package_uids of the Packages emitted so far for the datafile at n.
PackageUidsOf(n) ==
    { r.package_uid : r \in { e \in emitted : e.kind = "package" /\ e.datafile_path = path(n) } }

\* The uid a Package minted from the manifest at n has: purl, then the path.
UidOf(n) ==
    LET pd == package_data[n][1]
    IN  IF pd.name = Null THEN Null
        ELSE "pkg:" \o pd.type \o "/" \o pd.name
             \o (IF pd.version = Null THEN "" ELSE "@" \o pd.version)
             \o "?uuid=" \o path(n)

\* The merged dependency set of a manifest and its lockfile.
MergedDependencies(t, l) ==
    { [kind |-> "dependency", purl |-> d.purl,
       extracted_requirement |-> d.extracted_requirement, scope |-> d.scope,
       is_runtime |-> d.is_runtime, is_optional |-> d.is_optional,
       is_resolved |-> d.is_resolved, datafile_path |-> path(t),
       datasource_id |-> "cargo_toml", package_uid |-> UidOf(t)]
      : d \in Range(package_data[t][1].dependencies) }
    \cup
    { [kind |-> "dependency", purl |-> d.purl,
       extracted_requirement |-> d.extracted_requirement, scope |-> d.scope,
       is_runtime |-> d.is_runtime, is_optional |-> d.is_optional,
       is_resolved |-> d.is_resolved, datafile_path |-> path(l),
       datasource_id |-> "cargo_lock", package_uid |-> UidOf(t)]
      : d \in Range(package_data[l][1].dependencies) }

\* ---------------------------------------------------------------- claims

C2_NoDuplicateOwnership == \A n \in Nodes : NoDuplicates(for_packages[n])

\* C3: ownership monotonicity. Every step leaves each resource's
\* for_packages with what it held before, in place, and only adds at the end.
C3_OwnershipMonotonic ==
    [][\A n \in Nodes : IsPrefix(for_packages[n], for_packages'[n])]_vars

\* Two assemble calls have added to the same resource.
C3_Witness ==
    /\ ncalls = 2
    /\ \E n \in Nodes : \E i, j \in 1 .. Len(for_packages[n]) :
            for_packages[n][i] # for_packages[n][j]

\* C4: unrooted dependency accounting. When the manifest a Cargo.toml or
\* bower.json assemble call is given has no name, the call yields no Package
\* and exactly one Dependency per DependentPackage of the manifest, in order,
\* each with package_uid null.
C4_UnrootedDependencies ==
    (last.handler \in {"cargo_toml", "bower_json"}
        /\ package_data[last.resource][1].name = Null) =>
        LET pd == package_data[last.resource][1]
            own == SelectSeq(last.yielded,
                        LAMBDA r : r.kind = "dependency"
                                   /\ r.datafile_path = path(last.resource))
        IN  /\ Count(last.yielded, "package") = 0
            /\ Len(own) = Len(pd.dependencies)
            /\ \A i \in 1 .. Len(own) :
                /\ own[i].purl = pd.dependencies[i].purl
                /\ own[i].scope = pd.dependencies[i].scope
                /\ own[i].datasource_id = pd.datasource_id
                /\ own[i].package_uid = Null

\* A nameless Cargo.toml that declares a dependency was assembled.
C4_Witness ==
    /\ last.handler = "cargo_toml"
    /\ package_data[last.resource][1].name = Null
    /\ package_data[last.resource][1].dependencies # <<>>
    /\ \E i \in 1 .. Len(last.yielded) :
            last.yielded[i].kind = "dependency" /\ last.yielded[i].package_uid = Null

\* The state parse leaves on the file at n when it came to the outcome r.
ParsedAs(n, r) ==
    IF r.raised = "none" THEN package_data[n] = r.data
    ELSE package_data[n] = <<>> /\ n \in scan_errors

\* [package] name = "foo", version = "0.1.0"; [dependencies] serde = "1.0"
ScenarioCargoToml ==
    [malformed |-> FALSE, has_package |-> TRUE, name |-> "foo", version |-> "0.1.0",
     authors |-> <<>>, package_tables |-> <<>>,
     tables |-> <<[key |-> "dependencies",
                   entries |-> <<[name |-> "serde",
                                  requirement |-> [kind |-> "str", text |-> "1.0",
                                                   optional |-> "absent"]]>>]>>]

\* [[package]] name = "serde", version = "1.0.190"
ScenarioCargoLock ==
    [malformed |-> FALSE, package |-> <<[name |-> "serde", version |-> "1.0.190"]>>]

\* {"dependencies": {"jquery": "^3.0.0"}}
ScenarioBowerJson ==
    [malformed |-> FALSE, name |-> Null, version |-> Null, authors |-> <<>>,
     dependencies |-> <<[name |-> "jquery", requirement |-> "^3.0.0"]>>,
     devDependencies |-> <<>>]

\* C5: the Cargo scenario. In a directory whose Cargo.toml and Cargo.lock are
\* the scenario's two files, once both have been through parse and every
\* parsed one of them through assemble, exactly one Package,
\* pkg:cargo/foo@0.1.0, was emitted for the Cargo.toml, and exactly two
\* Dependency records for the two files: an unresolved one from the
\* Cargo.toml and a resolved one from the Cargo.lock, both with the Package's
\* package_uid.
C5_CargoScenario ==
    \A tl \in CargoPairs :
        ( /\ ParsedAs(tl[1], CargoTomlHandler_parse(ScenarioCargoToml))
          /\ ParsedAs(tl[2], CargoLockHandler_parse(ScenarioCargoLock))
          /\ \A n \in {tl[1], tl[2]} : parsed(n) => n \in assembled ) =>
            LET pkgs == { e \in emitted : e.kind = "package"
                                          /\ e.datafile_path = path(tl[1]) }
                deps == DependenciesOf({tl[1], tl[2]})
            IN  /\ Cardinality(pkgs) = 1
                /\ \A pk \in pkgs :
                    /\ pk.purl = "pkg:cargo/foo@0.1.0"
                    /\ Cardinality(deps) = 2
                    /\ \E d \in deps : /\ ~d.is_resolved
                                       /\ d.datasource_id = "cargo_toml"
                                       /\ d.package_uid = pk.package_uid
                    /\ \E d \in deps : /\ d.is_resolved
                                       /\ d.datasource_id = "cargo_lock"
                                       /\ d.package_uid = pk.package_uid

\* C6: default ownership. When a Cargo or Bower assemble call minted a
\* Package, the parent directory of the manifest and every resource below it
\* have the Package's package_uid in for_packages.
C6_ParentSubtreeOwned ==
    \A i \in 1 .. Len(last.yielded) :
        (last.handler \in {"cargo_toml", "cargo_lock", "bower_json"}
            /\ last.yielded[i].kind = "package") =>
            \A n \in Nodes :
                path(n) = last.yielded[i].datafile_path =>
                    \A r \in {parent(n)} \cup walk(parent(n)) :
                        Contains(for_packages[r], last.yielded[i].package_uid)

\* C7: lockfile alone. A Cargo.lock assemble call in a directory without a
\* Cargo.toml returns without raising, yields no Package, yields one
\* Dependency with package_uid null per dependency of the lock, and yields
\* the Cargo.lock resource.
C7_LockfileAlone ==
    (last.handler = "cargo_lock"
        /\ child_named(parent(last.resource), "Cargo.toml") = NoResource) =>
        /\ last.raised = "none"
        /\ Count(last.yielded, "package") = 0
        /\ Count(last.yielded, "dependency")
                = Len(package_data[last.resource][1].dependencies)
        /\ \A i \in 1 .. Len(last.yielded) :
                last.yielded[i].kind = "dependency" => last.yielded[i].package_uid = Null
        /\ Contains(last.yielded, [kind |-> "resource", path |-> path(last.resource)])

\* C8: the Bower scenario. Assembling a bower.json parsed from a manifest
\* with no name and the single dependency jquery: "^3.0.0" yields no Package
\* and exactly one Dependency, with package_uid null, scope "dependencies"
\* and is_runtime true.
C8_BowerScenario ==
    (last.handler = "bower_json"
        /\ package_data[last.resource] = BowerJsonHandler_parse(ScenarioBowerJson).data) =>
        /\ last.raised = "none"
        /\ Count(last.yielded, "package") = 0
        /\ Count(last.yielded, "dependency") = 1
        /\ \A i \in 1 .. Len(last.yielded) :
                last.yielded[i].kind = "dependency" =>
                    /\ last.yielded[i].purl = "pkg:bower/jquery"
                    /\ last.yielded[i].extracted_requirement = "^3.0.0"
                    /\ last.yielded[i].package_uid = Null
                    /\ last.yielded[i].scope = "dependencies"
                    /\ last.yielded[i].is_runtime

\* The scenario's bower.json was parsed and assembled.
C8_Witness ==
    /\ last.handler = "bower_json"
    /\ BowerJsonHandler_parse(ScenarioBowerJson).raised = "none"
    /\ package_data[last.resource] = BowerJsonHandler_parse(ScenarioBowerJson).data
    /\ package_data[last.resource][1].name = Null
    /\ Count(last.yielded, "dependency") = 1

\* C9: get_package_handler raises UnknownPackageDatasource exactly when the
\* datasource_id is not registered, and raises nothing else.
C9_UnknownDatasourceOnly ==
    lookup # NoLookup =>
        /\ lookup.raised \in {"none", "UnknownPackageDatasource"}
        /\ lookup.raised = "UnknownPackageDatasource"
                <=> lookup.datasource_id \notin RegisteredIds

\* C10: for the datasource_id of a registered handler get_package_handler
\* returns that handler, and no two registered handlers share a datasource_id.
C10_RegisteredHandlerReturned ==
    /\ \A i, j \in 1 .. Len(PACKAGE_DATAFILE_HANDLERS) :
            i # j => PACKAGE_DATAFILE_HANDLERS[i].datasource_id
                        # PACKAGE_DATAFILE_HANDLERS[j].datasource_id
    /\ (lookup # NoLookup /\ lookup.datasource_id \in RegisteredIds) =>
            /\ lookup.raised = "none"
            /\ lookup.handler = lookup.datasource_id

\* The latest step was an assemble call of this handler.
Called(handler) == ncalls' = ncalls + 1 /\ last'.handler = handler

\* Every entry of b past the end of a is x, and a is where b starts.
ExtendedOnlyBy(a, b, x) ==
    IsPrefix(a, b) /\ \A i \in Len(a) + 1 .. Len(b) : b[i] = x

\* C13: About-file ownership override. An AboutFileHandler.assemble call that
\* mints a Package adds the package_uid, and nothing else, only to the ABOUT
\* resource and to the children of its parent directory whose name is the
\* declared about_resource; every other resource keeps its for_packages.
C13_AboutOwnershipFrame ==
    [][Called("about_file") =>
        LET resource == last'.resource
            pd == package_data[resource][1]
            package_uid == from_package_data(pd, path(resource)).package_uid
            named(n) == /\ pd.about_resource # Null
                        /\ parent(n) = parent(resource)
                        /\ tree[n].name = pd.about_resource
        IN  \A n \in Nodes :
                IF purl(pd) # Null /\ (n = resource \/ named(n))
                THEN ExtendedOnlyBy(for_packages[n], for_packages'[n], package_uid)
                ELSE for_packages'[n] = for_packages[n]]_vars

\* An ABOUT file with a name was assembled, its about_resource names a
\* sibling that now has the package_uid, and a third resource that another
\* package owns stands beside them.
C13_Witness ==
    /\ last.handler = "about_file"
    /\ Count(last.yielded, "package") = 1
    /\ \E c, o \in Nodes :
        /\ c # last.resource /\ o \notin {c, last.resource}
        /\ parent(c) = parent(last.resource)
        /\ tree[c].name = package_data[last.resource][1].about_resource
        /\ Contains(for_packages[c], last.yielded[1].package_uid)
        /\ for_packages[o] # <<>>
        /\ ~Contains(for_packages[o], last.yielded[1].package_uid)

\* The name of the companion file each Cargo handler looks for.
CompanionName(handler) == IF handler = "cargo_toml" THEN "Cargo.lock" ELSE "Cargo.toml"

\* The direct children of the parent directory of n that carry the name.
SiblingsNamed(n, name) == { c \in children(parent(n)) : tree[c].name = name }

\* C14: companion lookup scope. Whatever a Cargo assemble call yields comes
\* from the file it was called on or from a direct child of that file's
\* parent directory with the companion's exact name; the package identity
\* its records carry is the one of the Cargo.toml of that directory. A file
\* of the same name in an ancestor or a nested directory contributes nothing.
C14_CompanionScope ==
    last.handler \in {"cargo_toml", "cargo_lock"} =>
        LET r == last.resource
            own == {r} \cup SiblingsNamed(r, CompanionName(last.handler))
            manifests == { t \in {r} \cup SiblingsNamed(r, "Cargo.toml") :
                             tree[t].name = "Cargo.toml" /\ parsed(t) }
        IN  \A i \in 1 .. Len(last.yielded) :
                LET y == last.yielded[i]
                IN  /\ y.kind = "resource" => \E n \in own : y.path = path(n)
                    /\ y.kind = "dependency" =>
                        /\ \E n \in own : y.datafile_path = path(n)
                        /\ y.package_uid \in {Null} \cup { UidOf(t) : t \in manifests }
                    /\ y.kind = "package" =>
                        \E t \in manifests : /\ y.datafile_path = path(t)
                                              /\ y.package_uid = UidOf(t)

\* A Cargo.toml was assembled while the directory above its own holds a
\* parsed Cargo.lock that declares dependencies.
C14_Witness ==
    /\ last.handler = "cargo_toml"
    /\ last.raised = "none"
    /\ parent(last.resource) # Root
    /\ \E l \in children(parent(parent(last.resource))) :
        /\ tree[l].name = "Cargo.lock"
        /\ parsed(l)
        /\ package_data[l][1].dependencies # <<>>

\* The Dependency records of the latest call, in the order they were yielded.
YieldedDependencies == SelectSeq(last.yielded, LAMBDA r : r.kind = "dependency")

\* What tells where a Dependency came from: the entry, the datasource, the path.
Provenance(purl_, is_resolved, datasource_id, datafile_path) ==
    [purl |-> purl_, is_resolved |-> is_resolved, datasource_id |-> datasource_id,
     datafile_path |-> datafile_path]

\* The provenance the dependencies captured for the datafile at n must carry.
DeclaredBy(n, datasource_id) ==
    [i \in 1 .. Len(package_data[n][1].dependencies) |->
        Provenance(package_data[n][1].dependencies[i].purl,
                   package_data[n][1].dependencies[i].is_resolved,
                   datasource_id, path(n))]

\* The latest call was a Cargo assemble that merged the pair <<toml, lock>>.
MergedCall(tl) ==
    /\ last.handler \in {"cargo_toml", "cargo_lock"}
    /\ last.resource \in {tl[1], tl[2]}
    /\ parsed(tl[1]) /\ parsed(tl[2])

\* C15: dependency provenance. A Cargo assemble call that merges a Cargo.toml
\* and a Cargo.lock, called on either file, yields the Cargo.toml's
\* dependencies with datasource_id cargo_toml and the Cargo.toml path, then
\* the Cargo.lock's with datasource_id cargo_lock and the Cargo.lock path.
C15_DependencyProvenance ==
    \A tl \in CargoPairs :
        MergedCall(tl) =>
            [i \in 1 .. Len(YieldedDependencies) |->
                Provenance(YieldedDependencies[i].purl, YieldedDependencies[i].is_resolved,
                           YieldedDependencies[i].datasource_id,
                           YieldedDependencies[i].datafile_path)]
            = DeclaredBy(tl[1], "cargo_toml") \o DeclaredBy(tl[2], "cargo_lock")

\* The Cargo.lock triggered a merged assembly in which both files declare
\* dependencies.
C15_Witness ==
    \E tl \in CargoPairs :
        /\ MergedCall(tl)
        /\ last.handler = "cargo_lock"
        /\ last.raised = "none"
        /\ package_data[tl[1]][1].dependencies # <<>>
        /\ package_data[tl[2]][1].dependencies # <<>>
        /\ Len(YieldedDependencies) = 2

\* The companion a Cargo assemble call on n merges: the sibling with the
\* companion's name whose package data were captured, if there is one.
MergedCompanions(n, handler) ==
    { c \in SiblingsNamed(n, CompanionName(handler)) : parsed(c) }

\* C16: every DependentPackage entry becomes a Dependency. One Cargo assemble
\* call yields as many Dependency records as the PackageData of the file it
\* was called on has dependency entries, plus the entries of the companion
\* it merged.
C16_EveryEntryBecomesDependency ==
    last.handler \in {"cargo_toml", "cargo_lock"} =>
        \E merged \in SUBSET MergedCompanions(last.resource, last.handler) :
            /\ Cardinality(merged) <= 1
            /\ merged = {} => MergedCompanions(last.resource, last.handler) = {}
            /\ Count(last.yielded, "dependency")
                = Len(package_data[last.resource][1].dependencies)
                  + (IF merged = {} THEN 0
                     ELSE Len(package_data[CHOOSE c \in merged : TRUE][1].dependencies))

\* C17: resource re-emission. Every about, Cargo.toml or Cargo.lock assemble
\* call yields the resource it was called on, whether or not it minted a
\* Package, and a Cargo call that merged a companion yields the companion's
\* resource too.
C17_ResourceReemitted ==
    last.handler \in {"about_file", "cargo_toml", "cargo_lock"} =>
        /\ Contains(last.yielded, ResourceRecord(last.resource))
        /\ last.handler # "about_file" =>
            \A c \in MergedCompanions(last.resource, last.handler) :
                Contains(last.yielded, ResourceRecord(c))

\* The datafile whose PackageData an assemble call on n mints from: the
\* Cargo.toml beside a Cargo.lock, the file itself for every other handler.
ManifestsOf(n, handler) ==
    IF handler = "cargo_lock" THEN MergedCompanions(n, handler) ELSE {n}

C20_UnparsedCompanion ==
    (last.handler = "cargo_toml"
        /\ \E l \in SiblingsNamed(last.resource, "Cargo.lock") : ~parsed(l)
        /\ MergedCompanions(last.resource, "cargo_toml") = {}) =>
        LET pd == package_data[last.resource][1]
        IN  /\ last.raised = "none"
            /\ Count(last.yielded, "package") = (IF purl(pd) # Null THEN 1 ELSE 0)
            /\ Count(last.yielded, "dependency") = Len(pd.dependencies)
            /\ \A i \in 1 .. Len(last.yielded) :
                    last.yielded[i].kind \in {"package", "dependency"} =>
                        last.yielded[i].datafile_path = path(last.resource)

\* C19: companion ambiguity. A Cargo assemble call in a directory that lists
\* the companion's name twice takes neither candidate: no Package or
\* Dependency of the call comes from a candidate and no candidate's resource
\* is yielded.
C19_AmbiguousCompanion ==
    (last.handler \in {"cargo_toml", "cargo_lock"}
        /\ Cardinality(SiblingsNamed(last.resource, CompanionName(last.handler))) >= 2) =>
        \A c \in SiblingsNamed(last.resource, CompanionName(last.handler)) :
            \A i \in 1 .. Len(last.yielded) :
                /\ last.yielded[i].kind = "resource" => last.yielded[i].path # path(c)
                /\ last.yielded[i].kind \in {"package", "dependency"} =>
                        last.yielded[i].datafile_path # path(c)

\* Handler i of the registry has a path pattern that matches the file.
PatternMatches(i) ==
    \/ \E pattern \in registry[i].path_patterns :
            pattern.kind = "ext" /\ location.ext = pattern.value
    \/ \E pattern \in registry[i].path_patterns :
            /\ pattern.kind = "name"
            /\ location.nested
            /\ <<location.stem, location.ext>>
                    \in {<<"Cargo", ".toml">>, <<"Cargo", ".lock">>, <<"bower", ".json">>}
            /\ pattern.value = location.stem \o location.ext

\* The content predicate of handler i, when it has one, holds of the file.
ContentAccepts(i) ==
    CASE registry[i].handler = "JavaWarRecognizer" ->
            location.filetype = <<"Zip", "archive", "data">>
      [] registry[i].handler = "InstallShieldPackageRecognizer" ->
            location.filetype = <<"PE32", "executable", "InstallShield", "archive">>
      [] registry[i].handler = "NSISInstallerRecognizer" ->
            location.filetype = <<"PE32", "executable", "Nullsoft", "Installer", "archive">>
      [] OTHER -> TRUE

\* The handlers that match the file: by path and, where they have one, by content.
Matching == { i \in 1 .. Len(registry) : PatternMatches(i) /\ ContentAccepts(i) }

\* The handlers whose path patterns match the file, whatever its content.
PatternMatching == { i \in 1 .. Len(registry) : PatternMatches(i) }

First(S) == CHOOSE i \in S : \A j \in S : i <= j

\* C11: dispatch. When the search for a file's handler is over, the handler
\* selected is the first in registry order whose path pattern matches the
\* path and whose content predicate, when it has one, holds; a handler whose
\* pattern does not match is never the one selected; and a file no handler
\* matches is selected by none and left as it was.
C11_Dispatch ==
    selected.done =>
        /\ selected.handler # 0 => PatternMatches(selected.handler)
        /\ IF Matching # {}
           THEN /\ selected.handler = First(Matching)
                /\ location.claimed_by = registry[First(Matching)].handler
           ELSE /\ selected.handler = 0
                /\ location \in Locations

\* A .war file that is a zip archive went to the recognizer of .war files,
\* which tells it by its content.
C11_Witness ==
    /\ selected.done
    /\ selected.handler # 0
    /\ registry[selected.handler].handler = "JavaWarRecognizer"
    /\ location.ext = ".war"
    /\ location.claimed_by = "JavaWarRecognizer"

Packages == { e \in emitted : e.kind = "package" }

\* The manifests whose own assemble call has minted: parsed with a purl and
\* assembled by a call that went past the minting.
Minted ==
    { n \in assembled :
        /\ package_data[n][1].datasource_id \in {"cargo_toml", "about_file", "bower_json"}
        /\ purl(package_data[n][1]) # Null }

WithoutCompanion ==
    IF last.handler = "cargo_toml"
    THEN handle_cargo_toml_and_lock(for_packages, parent(last.resource),
                                    package_data[last.resource], last.resource,
                                    <<>>, NoResource)
    ELSE handle_cargo_toml_and_lock(for_packages, parent(last.resource),
                                    <<>>, NoResource,
                                    package_data[last.resource], last.resource)

\* C22: parse failure isolation. A file whose parse failed has a scan error
\* and no package data and is never assembled, and a Cargo assemble call
\* whose only companions are files that failed to parse yields and ends as
\* it would with no companion in the directory.
C22_ParseFailureIsolated ==
    /\ \A n \in scan_errors : package_data[n] = <<>> /\ n \notin assembled
    /\ (last.handler \in {"cargo_toml", "cargo_lock"}
            /\ SiblingsNamed(last.resource, CompanionName(last.handler)) # {}
            /\ SiblingsNamed(last.resource, CompanionName(last.handler)) \subseteq scan_errors) =>
            /\ last.yielded = WithoutCompanion.yielded
            /\ last.raised = WithoutCompanion.raised

\* The resource of the latest assemble call is owned by some package.
AssembledOwned == for_packages[last.resource] # <<>>

\* The latest assemble call returned without a Package, every Dependency it
\* yielded carrying a null package_uid.
AssembledUnrooted ==
    /\ last.raised = "none"
    /\ Count(last.yielded, "package") = 0
    /\ \A i \in 1 .. Len(last.yielded) :
            last.yielded[i].kind = "dependency" => last.yielded[i].package_uid = Null

\* C23: resource lifecycle. The assemble call of a parsed resource leaves it
\* in exactly one terminal state, assembled-owned or assembled-unrooted, and
\* never failed.
C23_OneTerminalState ==
    last.handler # Null =>
        /\ last.raised = "none"
        /\ AssembledOwned \/ AssembledUnrooted
        /\ ~(AssembledOwned /\ AssembledUnrooted)

\* C28: an assemble call that mints no Package leaves the for_packages of
\* every resource as it was, and no for_packages ever holds a null id.
C28_NoMintNoOwnership ==
    /\ [][(ncalls' = ncalls + 1 /\ Count(last'.yielded, "package") = 0)
            => for_packages' = for_packages]_vars
    /\ [](\A n \in Nodes : ~Contains(for_packages[n], Null))

\* A manifest without a name was assembled after another call had minted
\* and given resources an owner.
C28_Witness ==
    /\ ncalls = 2
    /\ last.handler \in {"cargo_toml", "about_file"}
    /\ last.raised = "none"
    /\ purl(package_data[last.resource][1]) = Null
    /\ Count(last.yielded, "package") = 0
    /\ \E n \in Nodes : for_packages[n] # <<>>

\* The Cargo.toml and the Cargo.lock a Cargo assemble call on n works with.
ManifestOf(n, handler) ==
    IF handler = "cargo_toml" THEN n ELSE child_named(parent(n), "Cargo.toml")

LockOf(n, handler) ==
    IF handler = "cargo_lock" THEN n ELSE child_named(parent(n), "Cargo.lock")

DataOf(n) == IF n = NoResource THEN <<>> ELSE package_data[n]

\* The steps of a Cargo assemble call of the handler on n.
CargoEvents(n, handler) ==
    handle_cargo_toml_and_lock_events(parent(n),
        DataOf(ManifestOf(n, handler)), ManifestOf(n, handler),
        DataOf(LockOf(n, handler)), LockOf(n, handler))

\* The for_packages lists once the appends among the events were made.
RECURSIVE ApplyAppends(_, _)
ApplyAppends(fp, events) ==
    IF events = <<>> THEN fp
    ELSE ApplyAppends(
            IF Head(events).event = "append"
            THEN append_for_package(fp, Head(events).resource, Head(events).package_uid)
            ELSE fp,
            Tail(events))

Yields(events) ==
    LET ys == SelectSeq(events, LAMBDA e : e.event = "yield")
    IN  [i \in 1 .. Len(ys) |-> ys[i].record]

IsYieldOf(e, kind) == e.event = "yield" /\ e.record.kind = kind

\* C29: emission order within one Cargo assemble call. The steps of the call
\* are the ones that give its yields and its for_packages; among them the
\* Package comes before every Dependency, the Dependency records of a file
\* before the resource of that file, the resource of the Cargo.toml before
\* every Dependency of the Cargo.lock, and every append to for_packages
\* before the resource of the Cargo.toml.
C29_EmissionOrder ==
    [][(Called("cargo_toml") \/ Called("cargo_lock")) =>
        \A ev \in {CargoEvents(last'.resource, last'.handler)} :
        \A manifest \in {ManifestOf(last'.resource, last'.handler)} :
            /\ Yields(ev) = last'.yielded
            /\ ApplyAppends(for_packages, ev) = for_packages'
            /\ \A i \in 1 .. Len(ev) :
                /\ IsYieldOf(ev[i], "package") =>
                        \A j \in 1 .. Len(ev) : IsYieldOf(ev[j], "dependency") => i < j
                /\ IsYieldOf(ev[i], "dependency") =>
                        \A j \in 1 .. Len(ev) :
                            (IsYieldOf(ev[j], "resource")
                                /\ ev[i].record.datafile_path = ev[j].record.path) => i < j
                /\ (IsYieldOf(ev[i], "resource") /\ ev[i].record.path = path(manifest)) =>
                        \A j \in 1 .. Len(ev) :
                            ((IsYieldOf(ev[j], "dependency")
                                /\ ev[j].record.datasource_id = "cargo_lock") => i < j)
                            /\ (ev[j].event = "append" => j < i)]_vars

\* A merged call was made: it minted, gave ownership down the walk, and
\* yielded dependencies of both files and both resources.
C29_Witness ==
    \E tl \in CargoPairs :
        /\ MergedCall(tl)
        /\ last.raised = "none"
        /\ Count(last.yielded, "package") = 1
        /\ Count(last.yielded, "dependency") = 2
        /\ Count(last.yielded, "resource") = 2
        /\ for_packages[tl[2]] # <<>>

ExitCodes == {0, 1, 2}

Outputs == UNION { [1 .. m -> {"k", "%", "s", "d"}] : m \in 0 .. MaxOutput }

Contains_option(options, option) == \E i \in 1 .. Len(options) : options[i] = option

\* if option not in options: options.append(option)
with_option(options, option) ==
    IF Contains_option(options, option) THEN options ELSE Append(options, option)

\* text % locals(): the exception the %-formatting of text with a mapping
\* raises, "none" when it formats. '%%' is a percent sign and '%s' the
\* mapping as a string; '%d' wants a number; any other character after a
\* percent sign is no conversion, and so is the end of the text.
RECURSIVE percent_format(_)
percent_format(text) ==
    IF text = <<>> THEN "none"
    ELSE IF Head(text) # "%" THEN percent_format(Tail(text))
    ELSE IF Len(text) = 1 THEN "ValueError"
    ELSE IF text[2] \in {"%", "s"} THEN percent_format(Tail(Tail(text)))
    ELSE IF text[2] = "d" THEN "TypeError"
    ELSE "ValueError"

\* The message of the failure: the f-string holds the output of the last run
\* between lines of its own, which have no percent sign.
error_message(stdout) == <<"k", "\n">> \o stdout \o <<"\n">>

\* What building the message and asserting on the exit code raises.
\* run_scan_plain puts the formatted text through '% locals()' before the
\* assert; run_scan_click does not.
run_scan_plain_failure(stdout) ==
    IF percent_format(error_message(stdout)) # "none"
    THEN percent_format(error_message(stdout))
    ELSE "AssertionError"

run_scan_click_failure(output) == "AssertionError"

TestRuns ==
    { [runner |-> r, retry |-> re, test_mode |-> tm, expected_rc |-> e, options |-> o,
       runs |-> <<>>, rc |-> Null, stdout |-> <<>>, pc |-> "called", raised |-> "none"]
      : r \in {"run_scan_plain", "run_scan_click"}, re \in BOOLEAN, tm \in BOOLEAN,
        e \in {0, 1}, o \in {<< >>, <<"--verbose">>, <<"--json-pp">>} }

InitRunner ==
    /\ test_run \in TestRuns
    /\ NoDispatch
    /\ NoManifest
    /\ tree = Resources(CHOOSE t \in Trees : TRUE)
    /\ package_data = [n \in Nodes |-> <<>>]
    /\ scan_errors = {}
    /\ for_packages = [n \in Nodes |-> <<>>]
    /\ last = NoCall
    /\ emitted = {}
    /\ assembled = {}
    /\ ncalls = 0
    /\ lookup = NoLookup

\* One run of the scan with the options at hand: it ends with some exit
\* code and some output.
execute(run, options, rc, stdout) ==
    [run EXCEPT !.options = options, !.rc = rc, !.stdout = stdout,
                !.runs = Append(@, [options |-> options, rc |-> rc])]

\* The first run, '--test-mode' appended in test mode.
FirstRun ==
    /\ test_run.runner # Null
    /\ test_run.pc = "called"
    /\ \E rc \in ExitCodes, stdout \in Outputs :
        LET options == IF test_run.test_mode
                       THEN with_option(test_run.options, "--test-mode")
                       ELSE test_run.options
        IN  test_run' = [execute(test_run, options, rc, stdout) EXCEPT !.pc = "ran"]
    /\ UNCHANGED <<scan_vars, dispatch_vars, parse_vars>>

\* if retry and rc != expected_rc: run again, in verbose mode.
Rerun ==
    /\ test_run.runner # Null
    /\ test_run.pc = "ran"
    /\ test_run.retry
    /\ test_run.rc # test_run.expected_rc
    /\ \E rc \in ExitCodes, stdout \in Outputs :
        test_run' = [execute(test_run, with_option(test_run.options, "--verbose"), rc, stdout)
                        EXCEPT !.pc = "reran"]
    /\ UNCHANGED <<scan_vars, dispatch_vars, parse_vars>>

\* No run is left to make.
Ran ==
    \/ test_run.pc = "reran"
    \/ test_run.pc = "ran" /\ ~(test_run.retry /\ test_run.rc # test_run.expected_rc)

\* if rc != expected_rc: build the message and assert.
Fail ==
    /\ test_run.runner # Null
    /\ Ran
    /\ test_run.rc # test_run.expected_rc
    /\ test_run' = [test_run EXCEPT
            !.pc = "done",
            !.raised = IF test_run.runner = "run_scan_plain"
                       THEN run_scan_plain_failure(test_run.stdout)
                       ELSE run_scan_click_failure(test_run.stdout)]
    /\ UNCHANGED <<scan_vars, dispatch_vars, parse_vars>>

\* The exit code is the expected one: the result is returned.
Return ==
    /\ test_run.runner # Null
    /\ Ran
    /\ test_run.rc = test_run.expected_rc
    /\ test_run' = [test_run EXCEPT !.pc = "done"]
    /\ UNCHANGED <<scan_vars, dispatch_vars, parse_vars>>

NextRunner ==
    \/ FirstRun
    \/ Rerun
    \/ Fail
    \/ Return

SpecRunner == InitRunner /\ [][NextRunner]_vars

\* C25: scan retry in the test runners. With retry enabled the scan is run
\* once when the first exit code is the expected one and otherwise exactly
\* once more, with '--verbose' among the options; there are never more than
\* two runs; and the call raises an assertion failure exactly when the exit
\* code of the last run differs from expected_rc.
C25_RetryOnce ==
    (test_run.runner # Null /\ test_run.pc = "done") =>
        LET runs == test_run.runs
        IN  /\ Len(runs) \in {1, 2}
            /\ test_run.retry =>
                    IF runs[1].rc = test_run.expected_rc
                    THEN Len(runs) = 1
                    ELSE Len(runs) = 2 /\ Contains_option(runs[2].options, "--verbose")
            /\ (test_run.raised = "AssertionError") <=>
                    (runs[Len(runs)].rc # test_run.expected_rc)
            /\ test_run.raised \in {"none", "AssertionError"}

\* ------------------------------------------------------ claims: parse calls

BowerParsed == parse_call.handler = "bower_json" /\ parse_out.raised = "none"

\* C26: the package name BowerJsonHandler.parse produces is the top-level
\* 'name' of the manifest, null when it has none, whatever its 'authors'
\* list holds; a manifest without a name has no purl, so no Package is
\* minted for it.
C26_NameIsTopLevelName ==
    BowerParsed =>
        /\ parse_out.data[1].name = parse_call.doc.name
        /\ parse_call.doc.name = Null => purl(parse_out.data[1]) = Null

Mapped == parse_call.handler = "dependency_mapper" /\ parse_out.raised = "none"

\* C27: every DependentPackage dependency_mapper emits has an is_optional
\* that its own requirement alone decides (false for a string, the 'optional'
\* of a table or false), the same in every table that holds the requirement
\* at that place whatever comes before it; is_runtime is false exactly for a
\* scope ending in 'dev-dependencies' or 'build-dependencies'; is_resolved
\* is false.
C27_OptionalIsOwn ==
    Mapped =>
        \A i \in 1 .. Len(parse_out.deps) :
            LET entry == parse_call.dependencies[i]
                dp == parse_out.deps[i]
            IN  /\ entry.requirement.kind = "str" => ~dp.is_optional
                /\ entry.requirement.kind = "dict" =>
                        dp.is_optional = (entry.requirement.optional = "true")
                /\ \A other \in CargoTables :
                        (Len(other) >= i /\ other[i] = entry) =>
                            \A mapped \in {dependency_mapper(other, parse_call.scope)} :
                                mapped.raised = "none" =>
                                    mapped.deps[i].is_optional = dp.is_optional
                /\ dp.is_runtime =
                        (parse_call.scope \notin {"dev-dependencies", "build-dependencies",
                                                  "xdev-dependencies"})
                /\ ~dp.is_resolved

\* C30: BowerJsonHandler.parse emits one DependentPackage per key of
\* 'dependencies' (scope 'dependencies', runtime, not optional) and then one
\* per key of 'devDependencies' (scope 'devDependencies', not runtime,
\* optional), as many as the two tables hold together.
C30_BowerDependencies ==
    BowerParsed =>
        LET deps == parse_out.data[1].dependencies
            d == parse_call.doc.dependencies
            dev == parse_call.doc.devDependencies
        IN  /\ Len(deps) = Len(d) + Len(dev)
            /\ \A i \in 1 .. Len(d) :
                    /\ deps[i].purl = PackageURL("bower", d[i].name, Null)
                    /\ deps[i].extracted_requirement = d[i].requirement
                    /\ deps[i].scope = "dependencies"
                    /\ deps[i].is_runtime
                    /\ ~deps[i].is_optional
            /\ \A i \in 1 .. Len(dev) :
                    /\ deps[Len(d) + i].purl = PackageURL("bower", dev[i].name, Null)
                    /\ deps[Len(d) + i].extracted_requirement = dev[i].requirement
                    /\ deps[Len(d) + i].scope = "devDependencies"
                    /\ ~deps[Len(d) + i].is_runtime
                    /\ deps[Len(d) + i].is_optional

\* A manifest with an author, one dependency and two development
\* dependencies was parsed into three dependent packages.
C30_Witness ==
    /\ BowerParsed
    /\ parse_call.doc.authors # <<>>
    /\ Len(parse_call.doc.dependencies) = 1
    /\ Len(parse_call.doc.devDependencies) = 2
    /\ Len(parse_out.data[1].dependencies) = 3
    /\ parse_out.data[1].dependencies[3].scope = "devDependencies"

====
